---- MODULE Spec2Model ----
(***************************************************************************)
(* SecureApi (src/src/secureApi.js): the connection manager that walks a   *)
(* list of candidate tokens, connects the transport with each, waits for   *)
(* the node to be ready and reconnects when the transport closes.          *)
(*                                                                         *)
(* JavaScript runs one task at a time, so every action below is one task:  *)
(* a public call with everything it does synchronously, or one promise     *)
(* continuation / timer callback.  The collaborators (transport connect,   *)
(* liveness probe, token generation, status call) answer                   *)
(* nondeterministically.  A token is a sequence of one-character strings,  *)
(* so that sanitising is computed character by character.                  *)
(***************************************************************************)
EXTENDS Integers, Sequences, FiniteSets, TLC

VARIABLES
    isConnecting,   \* this._isConnecting
    needsToken,     \* this._needsToken
    tokens,         \* this._tokens: sequence of [value, tried]
    providerToken,  \* this.provider.token (read by secureToken)
    stored,         \* store 'sysuiToken'
    chains,         \* the promise chains started by connect() and still pending
    events,         \* the events emitted, the last LogWindow of them
    lastOp,         \* history: the task that ran last
    cyc,            \* history: what the cycle in flight has done so far
    closePending,   \* history: a close event no cycle has started after
    escaped         \* history: how a failure left connect(), if one did

vars == <<isConnecting, needsToken, tokens, providerToken, stored, chains,
          events, lastOp, cyc, closePending, escaped>>

----------------------------------------------------------------------------
(* Bounds of the model *)

MaxTokens == 3
LogWindow == 3
MaxRepTokens == 4

(* Program constants *)

ReadyCeiling == 30000
MinBackoff == 250
BackoffSpread == 500

----------------------------------------------------------------------------
(* Token values *)

None == <<"<null>">>
Initial == <<"i", "n", "i", "t", "i", "a", "l">>

TokA == <<"a", "-", "1">>
TokB == <<"b", "2">>
TokB2 == <<"b", "-", "2">>
TokG == <<"g", "-", "7", "_">>

\* what store.get('sysuiToken') may return at construction
StoredChoices == {None, TokB}
\* the nextToken argument of the constructor (from the url hash)
NextChoices == {None, TokA, TokB, TokB2}
\* what callers pass to updateToken
InputTokens == {TokA, TokB}
\* what the daemon's generateAuthorizationToken answers
GenTokens == {TokG}

\* further arguments of updateToken: the example of the documentation, a
\* token with nothing to remove in front, one with nothing to keep
TokEx == <<"a", "b", "-", "1", "2", "_", "c", "d", "!">>
TokC == <<"1", "_", "c", "!", "!">>
TokNone == <<"-", "!">>
SanInputs == {TokA, TokEx, TokC, TokNone}

AlphaNum == {"a", "b", "c", "d", "g", "i", "n", "t", "l", "1", "2", "7"}

\* token.replace(/[^a-zA-Z0-9]/g, '')
sanitiseFirst(token) ==
    IF \E i \in 1..Len(token) : token[i] \notin AlphaNum
    THEN LET i == CHOOSE k \in 1..Len(token) :
                    /\ token[k] \notin AlphaNum
                    /\ \A j \in 1..(k - 1) : token[j] \in AlphaNum
         IN SubSeq(token, 1, i - 1) \o SubSeq(token, i + 1, Len(token))
    ELSE token
sanitiseToken(token) == SelectSeq(token, LAMBDA ch : ch \in AlphaNum)

\* lodash uniq: the first occurrence of every value, in order
uniqNot(s) == s
RECURSIVE uniq(_)
uniq(s) ==
    IF s = <<>> THEN <<>>
    ELSE LET front == uniq(SubSeq(s, 1, Len(s) - 1))
             last == s[Len(s)]
         IN IF \E i \in 1..Len(front) : front[i] = last
            THEN front
            ELSE Append(front, last)

\* the constructor's candidate list
seedTokens(sysuiToken, nextToken) ==
    LET kept == SelectSeq(uniq(<<sysuiToken, nextToken, Initial>>),
                          LAMBDA t : t # None /\ t # <<>>)
    IN [i \in 1..Len(kept) |-> [value |-> kept[i], tried |-> FALSE]]

\* _resetTokens
resetTokensNot(tks) == tks
resetTokens(tks) == [i \in 1..Len(tks) |-> [tks[i] EXCEPT !.tried = FALSE]]

\* _getNextToken: the index of the first not-tried token, 0 for null
getNextTokenLast(tks) ==
    IF \E i \in 1..Len(tks) : ~tks[i].tried
    THEN CHOOSE i \in 1..Len(tks) :
            ~tks[i].tried /\ \A j \in (i + 1)..Len(tks) : tks[j].tried
    ELSE 0
getNextTokenButLast(tks) ==
    IF \E i \in 1..(Len(tks) - 1) : ~tks[i].tried
    THEN CHOOSE i \in 1..(Len(tks) - 1) :
            ~tks[i].tried /\ \A j \in 1..(i - 1) : tks[j].tried
    ELSE 0
getNextToken(tks) ==
    IF \E i \in 1..Len(tks) : ~tks[i].tried
    THEN CHOOSE i \in 1..Len(tks) :
            ~tks[i].tried /\ \A j \in 1..(i - 1) : tks[j].tried
    ELSE 0

\* nextToken.tried = true
markNothing(tks, i) == tks
markTried(tks, i) == [tks EXCEPT ![i].tried = TRUE]

----------------------------------------------------------------------------
(* Promise chains *)

NoResult == "pending"

\* this.emit(event), seen through the window of the last events
emit(log, event) ==
    IF Len(log) < LogWindow
    THEN Append(log, event)
    ELSE Append(SubSeq(log, 2, Len(log)), event)

lastEvent == IF events = <<>> THEN "none" ELSE events[Len(events)]

Chain(pc, stack, timeleft, polls, result) ==
    [pc |-> pc, stack |-> stack, timeleft |-> timeleft, polls |-> polls,
     result |-> result]

RemoveAt(s, i) == SubSeq(s, 1, i - 1) \o SubSeq(s, i + 1, Len(s))

Top(ch) == ch.stack[Len(ch.stack)]

Op(name, started) == [op |-> name, started |-> started]

\* sel: the candidate values selected, in order; acc: what the transport
\* answered to each (last answer); allUp: no probe reported the endpoint
\* down; updated: updateToken() ran during the cycle; okToken: the token of
\* the last transport connect that succeeded; ready: no status call failed
\* with an error other than NETWORK_DISABLED; reconnect: the cycle was
\* started by a close event that followed `connected`; rep: the
\* updateToken() calls with one and the same token made since the manager
\* was idle and connected with that token.
NoRep == [value |-> None, calls |-> 0, started |-> 0, connected |-> 0]

NewCycle == [sel |-> <<>>, acc |-> <<>>, allUp |-> TRUE, updated |-> FALSE,
             okToken |-> None, ready |-> TRUE, reconnect |-> FALSE,
             rep |-> NoRep]

SetAcc(h, answer) ==
    IF h.acc = <<>> THEN h ELSE [h EXCEPT !.acc[Len(h.acc)] = answer]

----------------------------------------------------------------------------
(* _connect(), the part that runs synchronously: pick the first not-tried  *)
(* token, mark it, push it into the transport and start the transport      *)
(* connect and the probe; with no token left, a promise resolved to false. *)

connectTokens(tks) ==
    LET i == getNextToken(tks)
    IN IF i = 0 THEN tks ELSE markTried(tks, i)

connectProvider(tks, old) ==
    LET i == getNextToken(tks)
    IN IF i = 0 THEN old ELSE sanitiseToken(tks[i].value)

connectChain(tks) ==
    LET i == getNextToken(tks)
    IN IF i = 0
       THEN Chain("settle", <<>>, ReadyCeiling, 0, FALSE)
       ELSE Chain("attempt", <<sanitiseToken(tks[i].value)>>, ReadyCeiling, 0, NoResult)

connectSelected(tks, h) ==
    LET i == getNextToken(tks)
    IN IF i = 0 THEN h
       ELSE [h EXCEPT !.sel = Append(h.sel, tks[i].value),
                      !.acc = Append(h.acc, "pending")]

\* Promise continuations are microtasks: those of a settled promise all run
\* before the next task (a call, an event, a timer, a reply) starts.
Continuations == {"resolved", "settle", "catch"}
MicrotasksDrained == \A c \in 1..Len(chains) : chains[c].pc \notin Continuations

\* connect(): the guard of line 146
NeverConnecting == FALSE
AlreadyConnecting == isConnecting

\* connect() called with the candidate list tks in place, by `op`
connect(tks, op) ==
    IF AlreadyConnecting
    THEN /\ tokens' = tks
         /\ lastOp' = Op(op, FALSE)
         /\ closePending' = (closePending \/ op = "close")
         /\ UNCHANGED <<isConnecting, needsToken, providerToken, stored, chains,
                        events, escaped>>
    ELSE LET fresh == resetTokens(tks)
         IN /\ isConnecting' = TRUE
            /\ events' = emit(events, "connecting")
            /\ tokens' = connectTokens(fresh)
            /\ providerToken' = connectProvider(fresh, providerToken)
            /\ chains' = Append(chains, connectChain(fresh))
            /\ lastOp' = Op(op, TRUE)
            /\ closePending' = FALSE
            /\ UNCHANGED <<needsToken, stored, escaped>>

\* the cycle history that goes with connect(tks, op)
connectHistory(tks) ==
    IF AlreadyConnecting
    THEN cyc
    ELSE connectSelected(resetTokens(tks), NewCycle)

\* a caller invokes connect()
UserConnect ==
    /\ MicrotasksDrained
    /\ connect(tokens, "connect")
    /\ cyc' = connectHistory(tokens)

\* the transport emits `close`, which is wired to connect()
TransportClose ==
    /\ MicrotasksDrained
    /\ connect(tokens, "close")
    /\ cyc' = IF AlreadyConnecting
              THEN cyc
              ELSE [connectHistory(tokens)
                      EXCEPT !.reconnect = (lastEvent = "connected")]

\* updateToken(_token)
updateTokensOnce(tks, _token) ==
    IF \E i \in 1..Len(tks) : tks[i].value = sanitiseToken(_token)
    THEN tks
    ELSE <<[value |-> sanitiseToken(_token), tried |-> FALSE]>> \o tks
updateTokensLast(tks, _token) ==
    Append(tks, [value |-> sanitiseToken(_token), tried |-> FALSE])
updateTokens(tks, _token) ==
    <<[value |-> sanitiseToken(_token), tried |-> FALSE]>> \o tks

\* history: updateToken(_token) counted among the calls that repeat a token
\* the manager was connected with
repeated(_token) ==
    LET value == sanitiseToken(_token)
        r == cyc.rep
        starts == IF AlreadyConnecting THEN 0 ELSE 1
    IN IF r.calls = 1 /\ r.value = value
       THEN [r EXCEPT !.calls = 2, !.started = @ + starts]
       ELSE IF ~isConnecting /\ lastEvent = "connected" /\ providerToken = value
            THEN [value |-> value, calls |-> 1, started |-> 1, connected |-> 0]
            ELSE NoRep

\* updateToken(_token), the model keeping at most max candidates
UpdateTokenWithin(_token, max) ==
    /\ MicrotasksDrained
    /\ Len(tokens) < max
    /\ connect(updateTokens(tokens, _token), "updateToken")
    /\ cyc' = IF AlreadyConnecting
              THEN [cyc EXCEPT !.updated = TRUE, !.rep = repeated(_token)]
              ELSE [connectHistory(updateTokens(tokens, _token))
                      EXCEPT !.rep = repeated(_token)]

UpdateToken(_token) == UpdateTokenWithin(_token, MaxTokens)

----------------------------------------------------------------------------
(* _connectWithToken(token): Promise.all([connectPromise, isNodeUp()])     *)

\* token === 'initial'
isInitialNever(token) == FALSE
isInitial(token) == token = Initial

\* provider.connect() and the probe have both settled for the top frame
AttemptSettles(c) ==
    /\ MicrotasksDrained
    /\ c \in 1..Len(chains)
    /\ chains[c].pc = "attempt"
    /\ \E connected \in BOOLEAN, isNodeUp \in BOOLEAN :
          LET ch == chains[c]
              top == Len(ch.stack) = 1
              h1 == IF top
                    THEN SetAcc(cyc, IF connected THEN "accepted" ELSE "rejected")
                    ELSE cyc
              h2 == IF connected THEN [h1 EXCEPT !.okToken = providerToken] ELSE h1
          IN /\ chains' = [chains EXCEPT ![c] =
                   IF connected
                   THEN IF isInitial(Top(ch))
                        THEN [ch EXCEPT !.pc = "generate"]
                        ELSE [ch EXCEPT !.pc = "resolved", !.result = TRUE]
                   ELSE IF ~isNodeUp
                        THEN [ch EXCEPT !.pc = "retry"]
                        ELSE [ch EXCEPT !.pc = "resolved", !.result = FALSE]]
             /\ cyc' = IF ~connected /\ ~isNodeUp
                       THEN [h2 EXCEPT !.allUp = FALSE]
                       ELSE h2
             /\ lastOp' = Op(IF connected THEN "accepted"
                             ELSE IF isNodeUp THEN "rejected" ELSE "unreachable",
                             FALSE)
    /\ UNCHANGED <<isConnecting, needsToken, tokens, providerToken, stored,
                   events, closePending, escaped>>

\* _generateAuthorizationToken: the daemon answers with a token and
\* _connectWithToken(token) starts, nested in the sentinel's connectPromise
GenerateResolves(c) ==
    /\ MicrotasksDrained
    /\ c \in 1..Len(chains)
    /\ chains[c].pc = "generate"
    /\ \E token \in GenTokens :
          /\ providerToken' = sanitiseToken(token)
          /\ chains' = [chains EXCEPT ![c] =
                [@ EXCEPT !.pc = "attempt",
                          !.stack = Append(@, sanitiseToken(token))]]
    /\ lastOp' = Op("generated", FALSE)
    /\ UNCHANGED <<isConnecting, needsToken, tokens, stored, events, cyc,
                   closePending, escaped>>

\* the daemon's call fails: connectPromise's catch gives false, and the
\* sentinel's own probe decides between retry and invalid
GenerateRejects(c) ==
    /\ MicrotasksDrained
    /\ c \in 1..Len(chains)
    /\ chains[c].pc = "generate"
    /\ \E isNodeUp \in BOOLEAN :
          /\ chains' = [chains EXCEPT ![c] =
                IF ~isNodeUp
                THEN [@ EXCEPT !.pc = "retry"]
                ELSE [@ EXCEPT !.pc = "resolved", !.result = FALSE]]
          /\ cyc' = IF isNodeUp THEN cyc ELSE [cyc EXCEPT !.allUp = FALSE]
    /\ lastOp' = Op("generateFailed", FALSE)
    /\ UNCHANGED <<isConnecting, needsToken, tokens, providerToken, stored,
                   events, closePending, escaped>>

\* window.setTimeout(..., retryTimeout) fires: _connectWithToken(token) again
RetryTimerNext(c) ==
    /\ MicrotasksDrained
    /\ c \in 1..Len(chains)
    /\ chains[c].pc = "retry"
    /\ tokens' = connectTokens(tokens)
    /\ providerToken' = connectProvider(tokens, providerToken)
    /\ chains' = [chains EXCEPT ![c] = connectChain(tokens)]
    /\ cyc' = connectSelected(tokens, cyc)
    /\ lastOp' = Op("retry", FALSE)
    /\ UNCHANGED <<isConnecting, needsToken, stored, events, closePending,
                   escaped>>
RetryTimerFires(c) ==
    /\ MicrotasksDrained
    /\ c \in 1..Len(chains)
    /\ chains[c].pc = "retry"
    /\ providerToken' = sanitiseToken(Top(chains[c]))
    /\ chains' = [chains EXCEPT ![c] = [@ EXCEPT !.pc = "attempt"]]
    /\ lastOp' = Op("retry", FALSE)
    /\ UNCHANGED <<isConnecting, needsToken, tokens, stored, events, cyc,
                   closePending, escaped>>

\* a nested _connectWithToken has resolved: the sentinel's connectPromise
\* resolves with the same value and its Promise.all continues
NestedResolved(c) ==
    /\ c \in 1..Len(chains)
    /\ chains[c].pc = "resolved"
    /\ Len(chains[c].stack) > 1
    /\ \E isNodeUp \in BOOLEAN :
          LET ch == chains[c]
              outer == SubSeq(ch.stack, 1, Len(ch.stack) - 1)
          IN /\ chains' = [chains EXCEPT ![c] =
                   IF ch.result
                   THEN [ch EXCEPT !.stack = outer]
                   ELSE IF ~isNodeUp
                        THEN [ch EXCEPT !.stack = outer, !.pc = "retry",
                                        !.result = NoResult]
                        ELSE [ch EXCEPT !.stack = outer]]
             /\ cyc' = IF ~ch.result /\ ~isNodeUp
                       THEN [cyc EXCEPT !.allUp = FALSE]
                       ELSE cyc
    /\ lastOp' = Op("nested", FALSE)
    /\ UNCHANGED <<isConnecting, needsToken, tokens, providerToken, stored,
                   events, closePending, escaped>>

----------------------------------------------------------------------------
(* _waitUntilNodeReady(_timeleft)                                          *)

\* the ceiling test of line 399
ceilingReachedStrict(timeleft) == timeleft < 0
ceilingReached(timeleft) == timeleft <= 0

\* the call itself: resolve at the ceiling, else one more status call
waitUntilNodeReadyAnew(ch, timeleft) ==
    [ch EXCEPT !.pc = "status", !.result = NoResult, !.timeleft = ReadyCeiling,
               !.polls = 1]
waitUntilNodeReady(ch, timeleft) ==
    IF ceilingReached(timeleft)
    THEN [ch EXCEPT !.pc = "settle", !.result = TRUE, !.timeleft = timeleft]
    ELSE [ch EXCEPT !.pc = "status", !.result = NoResult, !.timeleft = timeleft,
                    !.polls = @ + 1]

\* the durations Date.now() - start a backoff timer may measure: the timer
\* waits Math.floor(250 + 500 * Math.random()) ms, and the status call
\* before it took its own time
MaxBackoff == MinBackoff + BackoffSpread - 1
FineDurations == {MinBackoff, 500, MaxBackoff, 10000}
CoarseDurations == {15000, ReadyCeiling}

\* what parity.netChain() answers: ok; rejected with a falsy error;
\* rejected with type NETWORK_DISABLED; rejected with another error
StatusAnswers == {"ok", "noError", "disabled", "other"}

remaining(timeleft, duration) == timeleft - duration

StatusReplies(c) ==
    /\ MicrotasksDrained
    /\ c \in 1..Len(chains)
    /\ chains[c].pc = "status"
    /\ \E answer \in StatusAnswers :
          /\ chains' = [chains EXCEPT ![c] =
                CASE answer \in {"ok", "noError"} ->
                        [@ EXCEPT !.pc = "settle", !.result = TRUE]
                  [] answer = "disabled" ->
                        [@ EXCEPT !.pc = "backoff"]
                  [] OTHER ->
                        \* thrown, caught by _connect's catch: false
                        [@ EXCEPT !.pc = "settle", !.result = FALSE]]
          /\ cyc' = IF answer = "other" THEN [cyc EXCEPT !.ready = FALSE] ELSE cyc
          /\ lastOp' = Op(answer, FALSE)
    /\ UNCHANGED <<isConnecting, needsToken, tokens, providerToken, stored,
                   events, closePending, escaped>>

BackoffTimerFires(c, durations) ==
    /\ MicrotasksDrained
    /\ c \in 1..Len(chains)
    /\ chains[c].pc = "backoff"
    /\ \E duration \in durations :
          chains' = [chains EXCEPT ![c] =
              waitUntilNodeReady(@, remaining(@.timeleft, duration))]
    /\ lastOp' = Op("backoff", FALSE)
    /\ UNCHANGED <<isConnecting, needsToken, tokens, providerToken, stored,
                   events, cyc, closePending, escaped>>

----------------------------------------------------------------------------
(* _connect(): the continuation of _connectWithToken                       *)

CandidateResolved(c) ==
    /\ c \in 1..Len(chains)
    /\ chains[c].pc = "resolved"
    /\ Len(chains[c].stack) = 1
    /\ IF chains[c].result
       THEN \* valid: wait until the node is ready
            /\ chains' = [chains EXCEPT ![c] =
                    waitUntilNodeReady([@ EXCEPT !.polls = 0], ReadyCeiling)]
            /\ UNCHANGED <<tokens, providerToken, cyc>>
       ELSE \* not valid: _connect() again, with the next token in the list
            /\ tokens' = connectTokens(tokens)
            /\ providerToken' = connectProvider(tokens, providerToken)
            /\ chains' = [chains EXCEPT ![c] = connectChain(tokens)]
            /\ cyc' = connectSelected(tokens, cyc)
    /\ lastOp' = Op(IF chains[c].result THEN "valid" ELSE "invalid", FALSE)
    /\ UNCHANGED <<isConnecting, needsToken, stored, events, closePending,
                   escaped>>

----------------------------------------------------------------------------
(* connect(): the continuation of _connect()                               *)

\* _saveToken
saveNothing(old, token) == old
saveToken(old, token) == token

Settle(c) ==
    /\ c \in 1..Len(chains)
    /\ chains[c].pc = "settle"
    /\ isConnecting' = FALSE
    /\ IF chains[c].result
       THEN /\ stored' = saveToken(stored, providerToken)
            /\ needsToken' = FALSE
            /\ events' = emit(events, "connected")
       ELSE /\ needsToken' = TRUE
            /\ events' = emit(events, "disconnected")
            /\ UNCHANGED stored
    /\ chains' = RemoveAt(chains, c)
    /\ lastOp' = Op("settle", FALSE)
    /\ cyc' = IF chains[c].result /\ cyc.rep.calls > 0
              THEN [cyc EXCEPT !.rep.connected = @ + 1]
              ELSE cyc
    /\ UNCHANGED <<tokens, providerToken, closePending, escaped>>

----------------------------------------------------------------------------
(* The constructor, which ends with connect()                              *)

Init ==
    \E sysuiToken \in StoredChoices, nextToken \in NextChoices :
        LET seeded == seedTokens(sysuiToken, nextToken)
        IN /\ isConnecting = TRUE
           /\ needsToken = FALSE
           /\ tokens = connectTokens(seeded)
           /\ providerToken = connectProvider(seeded, sysuiToken)
           /\ stored = sysuiToken
           /\ chains = <<connectChain(seeded)>>
           /\ events = emit(<<>>, "connecting")
           /\ lastOp = Op("constructor", TRUE)
           /\ cyc = connectSelected(seeded, NewCycle)
           /\ closePending = FALSE
           /\ escaped = "none"

\* the backoff timer of the readiness wait, with the durations of a slow
\* status call
BackoffTimer(c) == BackoffTimerFires(c, CoarseDurations)

CycleStep ==
    \/ \E c \in 1..Len(chains) : AttemptSettles(c)
    \/ \E c \in 1..Len(chains) : GenerateResolves(c)
    \/ \E c \in 1..Len(chains) : GenerateRejects(c)
    \/ \E c \in 1..Len(chains) : RetryTimerFires(c)
    \/ \E c \in 1..Len(chains) : NestedResolved(c)
    \/ \E c \in 1..Len(chains) : CandidateResolved(c)
    \/ \E c \in 1..Len(chains) : StatusReplies(c)
    \/ \E c \in 1..Len(chains) : BackoffTimer(c)
    \/ \E c \in 1..Len(chains) : Settle(c)

Calls ==
    \/ UserConnect
    \/ TransportClose
    \/ \E t \in InputTokens : UpdateToken(t)

Next == CycleStep \/ Calls

Spec == Init /\ [][Next]_vars

\* The readiness wait on its own: the state in which the constructor's first
\* candidate has just been found valid and _waitUntilNodeReady() has made
\* its first status call; the backoff timer measures durations from 250 ms.
WaitInit ==
    \E sysuiToken \in StoredChoices, nextToken \in NextChoices :
        LET seeded == seedTokens(sysuiToken, nextToken)
            valid == [connectChain(seeded) EXCEPT !.pc = "resolved", !.result = TRUE]
        IN /\ isConnecting = TRUE
           /\ needsToken = FALSE
           /\ tokens = connectTokens(seeded)
           /\ providerToken = connectProvider(seeded, sysuiToken)
           /\ stored = sysuiToken
           /\ chains = <<waitUntilNodeReady(valid, ReadyCeiling)>>
           /\ events = emit(<<>>, "connecting")
           /\ lastOp = Op("valid", FALSE)
           /\ cyc = [SetAcc(connectSelected(seeded, NewCycle), "accepted")
                        EXCEPT !.okToken = connectProvider(seeded, sysuiToken)]
           /\ closePending = FALSE
           /\ escaped = "none"

BackoffTimerFine(c) == BackoffTimerFires(c, FineDurations)

WaitNext ==
    \/ \E c \in 1..Len(chains) : StatusReplies(c)
    \/ \E c \in 1..Len(chains) : BackoffTimerFine(c)

WaitSpec == WaitInit /\ [][WaitNext]_vars

----------------------------------------------------------------------------
(* The same program with a store whose set() may throw and listeners that  *)
(* may throw out of emit(): the failures of connect()'s own continuation.  *)

\* connect() on an idle manager, emit('connecting') throwing: the exception
\* leaves connect() before _resetTokens and _connect() are reached
connectThrows(tks, op) ==
    /\ MicrotasksDrained
    /\ ~AlreadyConnecting
    /\ isConnecting' = TRUE
    /\ events' = emit(events, "connecting")
    /\ tokens' = tks
    /\ lastOp' = Op(op, FALSE)
    /\ escaped' = "thrown"
    /\ UNCHANGED <<needsToken, providerToken, stored, chains, cyc, closePending>>

ConnectThrows ==
    \/ connectThrows(tokens, "connect")
    \/ connectThrows(tokens, "close")
    \/ \E t \in InputTokens :
          Len(tokens) < MaxTokens /\ connectThrows(updateTokens(tokens, t), "updateToken")

\* the then-handler of lines 161-182 throws: at _saveToken, at
\* emit('connected') or at emit('disconnected')
SettleThrows(c) ==
    /\ c \in 1..Len(chains)
    /\ chains[c].pc = "settle"
    /\ isConnecting' = FALSE
    /\ IF chains[c].result
       THEN \/ UNCHANGED <<stored, needsToken, events>>
            \/ /\ stored' = saveToken(stored, providerToken)
               /\ needsToken' = FALSE
               /\ events' = emit(events, "connected")
       ELSE /\ needsToken' = TRUE
            /\ events' = emit(events, "disconnected")
            /\ UNCHANGED stored
    /\ chains' = [chains EXCEPT ![c] = [@ EXCEPT !.pc = "catch"]]
    /\ lastOp' = Op("settleThrew", FALSE)
    /\ cyc' = IF events' # events /\ chains[c].result /\ cyc.rep.calls > 0
              THEN [cyc EXCEPT !.rep.connected = @ + 1]
              ELSE cyc
    /\ UNCHANGED <<tokens, providerToken, closePending, escaped>>

\* the catch-handler of lines 183-189; when its own emit('disconnected')
\* throws, the promise connect() returned is rejected
Catch(c) ==
    /\ c \in 1..Len(chains)
    /\ chains[c].pc = "catch"
    /\ isConnecting' = FALSE
    /\ events' = emit(events, "disconnected")
    /\ chains' = RemoveAt(chains, c)
    /\ \/ lastOp' = Op("caught", FALSE) /\ UNCHANGED escaped
       \/ lastOp' = Op("catchThrew", FALSE) /\ escaped' = "rejected"
    /\ UNCHANGED <<needsToken, tokens, providerToken, stored, cyc, closePending>>

FaultNext ==
    \/ Next
    \/ ConnectThrows
    \/ \E c \in 1..Len(chains) : SettleThrows(c)
    \/ \E c \in 1..Len(chains) : Catch(c)

FaultSpec == Init /\ [][FaultNext]_vars

\* Every pending continuation, timer and collaborator call of a cycle is
\* eventually run or answered; callers and the transport's close events are
\* under no obligation.
FairSpec == Spec /\ WF_vars(CycleStep)

----------------------------------------------------------------------------
(* The manager with callers that pass updateToken() strings with more to   *)
(* sanitise.                                                               *)

SanNext ==
    \/ \E _token \in SanInputs : UpdateToken(_token)
    \/ CycleStep

SanSpec == Init /\ [][SanNext]_vars

----------------------------------------------------------------------------
(* The manager with callers that pass updateToken() one token, again and   *)
(* again, and a candidate list that has room for the repetitions.          *)

RepInputs == {TokB}

RepNext ==
    \/ \E _token \in RepInputs : UpdateTokenWithin(_token, MaxRepTokens)
    \/ UserConnect
    \/ TransportClose
    \/ CycleStep

RepSpec == Init /\ [][RepNext]_vars

----------------------------------------------------------------------------
(* Claims                                                                  *)

IsCall(op) == op \in {"connect", "close", "updateToken"}

\* C1: at most one attempt cycle (one promise chain started by connect())
\* is in flight at any time, and one is in flight exactly while
\* isConnecting is true.
C1_MutualExclusion ==
    /\ Len(chains) <= 1
    /\ isConnecting <=> Len(chains) = 1

\* a close event arrived, and was dropped, during the readiness wait of the
\* cycle in flight
C1_Witness ==
    /\ lastOp = Op("close", FALSE)
    /\ Len(chains) = 1
    /\ chains[1].pc = "backoff"
    /\ isConnecting

\* C2: connect() invoked while isConnecting is true changes nothing:
\* isConnecting, needsToken, the candidate list with its tried flags, the
\* transport token and the store are unchanged, no event is emitted and no
\* second cycle is started.
C2_ConnectNoOp ==
    [][(isConnecting /\ lastOp'.op \in {"connect", "close"})
        => /\ UNCHANGED <<isConnecting, needsToken, tokens, providerToken,
                          stored, events, chains, cyc>>
           /\ ~lastOp'.started]_vars

\* connect() was dropped while a cycle that already rejected a candidate
\* was waiting for the transport
C2_Witness ==
    /\ lastOp = Op("connect", FALSE)
    /\ isConnecting
    /\ Len(chains) = 1
    /\ chains[1].pc = "attempt"
    /\ Len(tokens) >= 2
    /\ tokens[1].tried /\ tokens[2].tried

IsSentinel(value) == sanitiseToken(value) = Initial

Generated == {sanitiseToken(g) : g \in GenTokens}

TriedCount == Cardinality({i \in 1..Len(tokens) : tokens[i].tried})

Concluded(event) == lastOp.op = "settle" /\ lastEvent = event

\* a step of the cycle in flight that selects a candidate
Selects == Len(cyc'.sel) = Len(cyc.sel) + 1

\* the selected candidate is the first untried entry of the list, and it is
\* the only one marked
SelectsFirstUntried ==
    \E i \in 1..Len(tokens) :
        /\ ~tokens[i].tried
        /\ \A j \in 1..(i - 1) : tokens[j].tried
        /\ tokens' = [tokens EXCEPT ![i].tried = TRUE]
        /\ cyc'.sel[Len(cyc'.sel)] = tokens[i].value
        /\ providerToken' = sanitiseToken(tokens[i].value)

\* C3 as stated: in a cycle whose probes all reported the endpoint up and
\* whose node is ready, the candidates are attempted in list order, the cycle
\* stops at the first one the transport accepts and persists that
\* candidate's sanitised value.
C3_Original ==
    (Concluded("connected") /\ cyc.allUp)
        => LET n == Len(cyc.sel)
           IN /\ \A i \in 1..(n - 1) : cyc.acc[i] = "rejected"
              /\ cyc.acc[n] = "accepted"
              /\ stored = sanitiseToken(cyc.sel[n])

\* C3 (amended): as C3, but the sentinel is a candidate the transport may
\* accept without being valid: it is exchanged for a generated token, the
\* cycle goes on to the next candidate when the exchange fails, and when it
\* succeeds the token persisted is the sanitised generated token.
C3_Failover ==
    /\ [][Selects /\ lastOp'.op = "invalid" => SelectsFirstUntried]_vars
    /\ [](Concluded("connected") /\ cyc.allUp
            => LET n == Len(cyc.sel)
               IN /\ n >= 1 /\ TriedCount = n
                  /\ \A i \in 1..(n - 1) :
                        cyc.acc[i] = "rejected" \/ IsSentinel(cyc.sel[i])
                  /\ cyc.acc[n] = "accepted"
                  /\ stored = providerToken
                  /\ stored = IF IsSentinel(cyc.sel[n])
                              THEN cyc.okToken
                              ELSE sanitiseToken(cyc.sel[n])
                  /\ IsSentinel(cyc.sel[n]) => stored \in Generated
                  /\ ~cyc.updated =>
                        \A i \in 1..Len(tokens) :
                            /\ tokens[i].tried <=> i <= n
                            /\ i <= n => tokens[i].value = cyc.sel[i])
    /\ [](Concluded("disconnected") /\ cyc.allUp /\ cyc.ready
            => \A i \in 1..Len(cyc.sel) :
                  cyc.acc[i] = "rejected" \/ IsSentinel(cyc.sel[i]))

\* [B(invalid), A(valid), initial]: B was tried and rejected, A accepted, and
\* A's sanitised value persisted
C3_Witness ==
    /\ Concluded("connected")
    /\ cyc.allUp
    /\ cyc.sel = <<TokB, TokA>>
    /\ cyc.acc = <<"rejected", "accepted">>
    /\ tokens = <<[value |-> TokB, tried |-> TRUE], [value |-> TokA, tried |-> TRUE],
                  [value |-> Initial, tried |-> FALSE]>>
    /\ stored = <<"a", "1">>

\* the cycle in flight found no candidate with tried = false
Exhausted ==
    /\ Len(chains) = 1
    /\ chains[1].pc = "settle"
    /\ chains[1].stack = <<>>

AllTried == \A i \in 1..Len(tokens) : tokens[i].tried

\* C4: when a cycle finds no untried candidate (all were attempted), the
\* cycle concludes with isConnecting = false, needsToken = true and a
\* `disconnected` event, and does not write to the store.
C4_Exhaustion ==
    /\ [](Exhausted => AllTried /\ isConnecting /\ ~chains[1].result)
    /\ [][lastOp'.op = "invalid" => (AllTried <=> Exhausted')]_vars
    /\ [][Exhausted
            => /\ lastOp'.op = "settle"
               /\ ~isConnecting'
               /\ needsToken'
               /\ events' = emit(events, "disconnected")
               /\ stored' = stored
               /\ chains' = <<>>]_vars

\* a cycle over three candidates, each rejected by a reachable endpoint, has
\* concluded
C4_Witness ==
    /\ Concluded("disconnected")
    /\ Len(cyc.sel) = 3
    /\ \A i \in 1..3 : cyc.acc[i] = "rejected"
    /\ cyc.allUp
    /\ AllTried
    /\ needsToken /\ ~isConnecting

\* connect() has started a cycle over the list `before`: `connecting` was
\* emitted, every tried flag was reset and the first candidate selected
StartsCycleOver(before) ==
    /\ lastOp'.started
    /\ isConnecting'
    /\ events' = emit(events, "connecting")
    /\ Len(chains') = Len(chains) + 1
    /\ Len(tokens') = Len(before)
    /\ \A i \in 1..Len(before) :
          /\ tokens'[i].value = before[i].value
          /\ tokens'[i].tried <=> i = 1
    /\ providerToken' = sanitiseToken(before[1].value)
    /\ cyc'.sel = <<before[1].value>>

\* C5 as stated: every close event, whenever it occurs, is followed by a
\* connect cycle that starts after it, without caller intervention.  With no
\* cycle in flight nothing is pending that could start one, so the claim
\* requires that an idle manager has no close event left unanswered.
C5_Original == ~isConnecting => ~closePending

\* C5 (amended): a close event that arrives while no cycle is in flight
\* starts a full cycle at once (`connecting`, all tried flags reset); one
\* that arrives while a cycle is in flight is dropped and starts nothing,
\* then or when that cycle concludes.
C5_AutoReconnect ==
    /\ [][lastOp'.op = "close"
            => IF isConnecting
               THEN /\ ~lastOp'.started /\ closePending'
                    /\ UNCHANGED <<isConnecting, chains, events, tokens>>
               ELSE StartsCycleOver(tokens) /\ ~closePending']_vars
    /\ [][(closePending /\ lastOp'.op = "settle")
            => closePending' /\ ~isConnecting' /\ chains' = <<>>]_vars

\* the transport closed after a `connected` cycle that had tried two
\* candidates, and a new cycle started
C5_Witness ==
    /\ lastOp = Op("close", TRUE)
    /\ Len(events) >= 2
    /\ events[Len(events) - 1] = "connected"
    /\ lastEvent = "connecting"
    /\ Len(tokens) = 3
    /\ tokens[1].tried /\ ~tokens[2].tried /\ ~tokens[3].tried
    /\ stored = sanitiseToken(tokens[2].value)

SanitisedInputs == {sanitiseToken(t) : t \in InputTokens}

\* C6 as stated: updateToken(token), called in any state of the manager,
\* puts the sanitised token first with tried = false and starts a new
\* cycle in which it is the first candidate attempted.
C6_Original ==
    [][lastOp'.op = "updateToken"
        => /\ tokens'[1].value \in SanitisedInputs
           /\ StartsCycleOver(<<tokens'[1]>> \o tokens)]_vars

\* C6 (amended): updateToken(token) puts the sanitised token first with
\* tried = false; when no cycle is in flight it starts a new cycle in which
\* that candidate is the first attempted; when a cycle is in flight it
\* starts none and changes nothing else.
C6_UpdateToken ==
    [][lastOp'.op = "updateToken"
        => /\ tokens'[1].value \in SanitisedInputs
           /\ IF isConnecting
              THEN /\ tokens' = <<[value |-> tokens'[1].value, tried |-> FALSE]>>
                                    \o tokens
                   /\ ~lastOp'.started
                   /\ UNCHANGED <<isConnecting, needsToken, providerToken,
                                  stored, events, chains>>
              ELSE StartsCycleOver(<<tokens'[1]>> \o tokens)]_vars

\* updateToken("a-1") on an idle manager whose last cycle ended
\* `disconnected`: "a1" is first, and being attempted
C6_Witness ==
    /\ lastOp = Op("updateToken", TRUE)
    /\ Len(events) >= 2
    /\ events[Len(events) - 1] = "disconnected"
    /\ tokens[1] = [value |-> <<"a", "1">>, tried |-> TRUE]
    /\ providerToken = <<"a", "1">>
    /\ chains = <<Chain("attempt", <<<<"a", "1">>>>, ReadyCeiling, 0, NoResult)>>

\* the cycle in flight waits retryTimeout to connect again with the same
\* token, the probe having reported the endpoint down
AwaitingRetry == \E c \in 1..Len(chains) : chains[c].pc = "retry"

\* C7 as stated: once connect() has set isConnecting = true the manager
\* eventually sets it to false, whatever the collaborators answer as long as
\* each call settles, an endpoint that stays unreachable included.
C7_Original == isConnecting ~> ~isConnecting

\* C7 (amended): as long as each collaborator call settles, a cycle
\* eventually settles (isConnecting = false with `connected` or
\* `disconnected`) unless the probe keeps reporting the endpoint down, in
\* which case it keeps coming back to the retry wait; once settled, a
\* further connect(), close event or updateToken() starts a new cycle.
C7_Settles ==
    /\ isConnecting ~> (~isConnecting \/ AwaitingRetry)
    /\ [][(isConnecting /\ ~isConnecting')
            => /\ lastOp'.op = "settle"
               /\ \E e \in {"connected", "disconnected"} : events' = emit(events, e)]_vars
    /\ [][(~isConnecting /\ IsCall(lastOp'.op))
            => /\ isConnecting' /\ lastOp'.started
               /\ events' = emit(events, "connecting")]_vars

\* the constructor's cycle has settled `connected`, and a further connect()
\* has started the next one
C7_Witness ==
    /\ lastOp = Op("connect", TRUE)
    /\ events = <<"connecting", "connected", "connecting">>
    /\ isConnecting

\* 30 000 ms of ceiling over 250 ms of shortest backoff
MaxPolls == ReadyCeiling \div MinBackoff

\* C8: with every status call answering NETWORK_DISABLED, the readiness wait
\* resolves true (never rejects) as soon as the accumulated elapsed time
\* reaches the 30 000 ms ceiling; every retry takes at least 250 ms off the
\* remaining time, so at most 120 status calls are made.
C8_WaitTerminates ==
    /\ [](\A c \in 1..Len(chains) :
            LET ch == chains[c]
            IN /\ ch.polls <= MaxPolls
               /\ ch.pc \in {"status", "backoff"}
                    => /\ ch.timeleft > 0
                       /\ ch.timeleft <= ReadyCeiling - (ch.polls - 1) * MinBackoff
               /\ (ch.pc = "settle" /\ lastOp.op = "backoff")
                    => ch.result = TRUE /\ ch.timeleft <= 0)
    /\ [][\A c \in 1..Len(chains) :
            (chains[c].pc = "backoff" /\ lastOp'.op = "backoff")
                => LET ch == chains'[c]
                   IN /\ ch.timeleft <= chains[c].timeleft - MinBackoff
                      /\ IF ch.timeleft <= 0
                         THEN ch.pc = "settle" /\ ch.result = TRUE
                                /\ ch.polls = chains[c].polls
                         ELSE ch.pc = "status"
                                /\ ch.polls = chains[c].polls + 1]_vars

\* 120 status calls answered NETWORK_DISABLED, each retried after the
\* shortest backoff: the 120th retry finds nothing left and resolves true
C8_Witness ==
    /\ Len(chains) = 1
    /\ chains[1].pc = "settle"
    /\ chains[1].result = TRUE
    /\ chains[1].polls = MaxPolls
    /\ chains[1].timeleft = 0
    /\ lastOp.op = "backoff"

\* C9: no failure during a cycle escapes connect(): whatever fails
\* (transport connect, token generation, status call, saving the token,
\* emitting an event), connect() neither throws nor returns a promise that
\* rejects, and the cycle ends with isConnecting = false and a
\* `disconnected` event.
C9_FailuresNeverEscape ==
    /\ escaped = "none"
    /\ chains = <<>> => ~isConnecting
    /\ lastOp.op \in {"caught", "catchThrew"} => lastEvent = "disconnected"

\* C10: the store is written only when a cycle concludes `connected`, and
\* then with the transport's current token, the one whose connect was last
\* accepted; a cycle that ends `disconnected`, a dropped connect() and
\* updateToken() leave it as it is.
C10_StoreWrittenOnSuccess ==
    /\ [][stored' # stored
            => /\ lastOp'.op = "settle"
               /\ events' = emit(events, "connected")]_vars
    /\ [][(lastOp'.op = "settle" /\ events' = emit(events, "connected"))
            => /\ stored' = providerToken
               /\ stored' = cyc.okToken
               /\ providerToken' = providerToken]_vars
    /\ [][(IsCall(lastOp'.op) \/ events' = emit(events, "disconnected"))
            => stored' = stored]_vars

\* the token generated in exchange for the sentinel was persisted over the
\* token of an earlier session
C10_Witness ==
    /\ Concluded("connected")
    /\ stored = <<"g", "7">>
    /\ providerToken = stored
    /\ Len(tokens) >= 2
    /\ tokens[1].value = TokB


Values(tks) == [i \in 1..Len(tks) |-> tks[i].value]

NoDuplicates(s) == \A i, j \in 1..Len(s) : s[i] = s[j] => i = j

Sanitised(s) == [i \in 1..Len(s) |-> sanitiseToken(s[i])]

\* C11 as stated: in every reachable state no two candidates have the same
\* value, nor the same sanitised value.
C11_Original == NoDuplicates(Sanitised(Values(tokens)))

\* C11: the candidate list is deduplicated by value once, by the
\* constructor, and on the values as given (two seeds that differ only in
\* characters sanitising removes are both kept); updateToken() prepends the
\* sanitised value whether or not a candidate has it already, and no other
\* step adds, removes or changes a value.
C11_Deduplicated ==
    /\ [](lastOp.op = "constructor" => NoDuplicates(Values(tokens)))
    /\ [][IF lastOp'.op = "updateToken"
          THEN \E t \in InputTokens :
                 Values(tokens') = <<sanitiseToken(t)>> \o Values(tokens)
          ELSE Values(tokens') = Values(tokens)]_vars

\* updateToken() has added a value the list already had
C11_Witness ==
    /\ lastOp.op = "updateToken"
    /\ Len(tokens) >= 2
    /\ \E i \in 2..Len(tokens) : tokens[i].value = tokens[1].value


\* the cycle in flight was started by a close event that found the manager
\* idle after `connected`
Reconnecting == isConnecting /\ cyc.reconnect

Terminal == {"connected", "disconnected"}

\* C12 as stated: a close event that finds the manager idle after
\* `connected` is followed by one `connecting` and by one terminal event.
C12_Original == Reconnecting ~> ~isConnecting

\* C12 (amended): a close event that finds the manager idle after
\* `connected` starts exactly one cycle and emits `connecting` once; until
\* that cycle concludes, further close events change nothing and the only
\* event emitted is the one terminal event that concludes it; the cycle
\* does conclude unless the endpoint keeps being reported down.
C12_Reconnect ==
    /\ [][(lastOp'.op = "close" /\ ~isConnecting /\ lastEvent = "connected")
            => /\ StartsCycleOver(tokens)
               /\ Len(chains') = 1
               /\ Reconnecting']_vars
    /\ [][Reconnecting
            => /\ lastOp'.op = "close"
                  => UNCHANGED <<isConnecting, chains, events, tokens, cyc>>
               /\ \/ events' = events /\ isConnecting'
                  \/ /\ lastOp'.op = "settle"
                     /\ \E e \in Terminal : events' = emit(events, e)
                     /\ ~isConnecting'
                     /\ chains' = <<>>]_vars
    /\ Reconnecting ~> (~isConnecting \/ AwaitingRetry)

\* the cycle a close event started after `connected` has concluded
\* `connected` in turn, a further close event having been dropped meanwhile
C12_Witness ==
    /\ lastOp.op = "settle"
    /\ cyc.reconnect
    /\ closePending
    /\ ~isConnecting
    /\ events = <<"connected", "connecting", "connected">>


\* out is the string in with the characters outside [a-zA-Z0-9] removed and
\* the others in their order: the k-th character kept is the k-th of out
IsStripped(out, in) ==
    LET keep == {i \in 1..Len(in) : in[i] \in AlphaNum}
    IN /\ Len(out) = Cardinality(keep)
       /\ \A i \in keep : out[Cardinality({j \in keep : j <= i})] = in[i]

\* C13: the candidate value updateToken() adds, and every token
\* _connectWithToken pushes into the transport (a selected candidate, a
\* generated token, the token of a retry), is the string given with the
\* characters outside [a-zA-Z0-9] removed and the others in their order;
\* sanitising what is sanitised already changes nothing.
C13_Sanitisation ==
    /\ [][lastOp'.op = "updateToken"
            => /\ \E t \in SanInputs : IsStripped(tokens'[1].value, t)
               /\ sanitiseToken(tokens'[1].value) = tokens'[1].value]_vars
    /\ [][Selects
            => IsStripped(providerToken', cyc'.sel[Len(cyc'.sel)])]_vars
    /\ [][lastOp'.op = "generated"
            => \E g \in GenTokens : IsStripped(providerToken', g)]_vars
    /\ [][lastOp'.op = "retry"
            => /\ IsStripped(providerToken', Top(chains[1]))
               /\ providerToken' = Top(chains[1])]_vars
    /\ [](sanitiseToken(providerToken) = providerToken)

\* updateToken("ab-12_cd!") on an idle manager: the candidate added, which
\* the new cycle pushes into the transport, is "ab12cd"
C13_Witness ==
    /\ lastOp = Op("updateToken", TRUE)
    /\ tokens[1].value = <<"a", "b", "1", "2", "c", "d">>
    /\ providerToken = tokens[1].value


\* C14 as stated: two updateToken(t) calls made when the manager is
\* connected with t add two candidates with value t and result in at most
\* one `connected` event.
C14_Original ==
    cyc.rep.calls = 2
        => /\ tokens[1].value = cyc.rep.value
           /\ tokens[2].value = cyc.rep.value
           /\ cyc.rep.connected <= 1

\* C14 (amended): two updateToken(t) calls made when the manager is
\* connected with t add two candidates with the sanitised value of t, in
\* front of the list; each call that finds the manager idle starts a cycle
\* and each cycle emits `connected` at most once, so there are at most as
\* many `connected` events as calls that started a cycle: one when the
\* second call arrives while the first call's cycle is in flight, two when
\* it arrives after that cycle has concluded `connected`.
C14_Repeated ==
    /\ [](cyc.rep.calls = 2
            => /\ tokens[1].value = cyc.rep.value
               /\ tokens[2].value = cyc.rep.value
               /\ cyc.rep.connected <= cyc.rep.started
               /\ cyc.rep.started <= cyc.rep.calls)
    /\ [][(cyc.rep.calls = 1 /\ cyc'.rep.calls = 2)
            => /\ lastOp'.op = "updateToken"
               /\ Len(tokens') = Len(tokens) + 1
               /\ IF isConnecting
                  THEN /\ cyc'.rep.started = 1
                       /\ UNCHANGED <<events, chains>>
                  ELSE /\ cyc'.rep.started = 2
                       /\ events' = emit(events, "connecting")]_vars

\* the second updateToken(t) arrived while the cycle of the first was in
\* flight; that cycle has concluded `connected`, the only such event
C14_Witness ==
    /\ cyc.rep.calls = 2
    /\ cyc.rep.started = 1
    /\ cyc.rep.connected = 1
    /\ lastOp.op = "settle"
    /\ ~isConnecting


\* C15: whenever a cycle concludes `disconnected` with needsToken = true,
\* every candidate of the list has been tried; a status call that fails
\* with an error other than NETWORK_DISABLED makes the cycle go on to the
\* next untried candidate.
C15_GivesUpWhenExhausted ==
    (Concluded("disconnected") /\ needsToken)
        => \A i \in 1..Len(tokens) : tokens[i].tried


\* the reasons _connectWithToken has to report a candidate not valid
ConnectRefused == {"rejected", "nested"}
ExchangeRefused == {"rejected", "nested", "generateFailed"}

\* a transport connect failed with the probe reporting the endpoint down:
\* the retry wait starts, and until its timer fires no tried flag changes
\* and the candidate is not given up; the timer connects with the same token
Patience ==
    /\ [][lastOp'.op = "unreachable"
            => /\ AwaitingRetry'
               /\ chains'[1].stack = chains[1].stack
               /\ tokens' = tokens]_vars
    /\ [][AwaitingRetry
            => /\ TriedCount' = TriedCount
               /\ cyc'.sel = cyc.sel
               /\ lastOp'.op # "invalid"
               /\ lastOp'.op = "retry"
                    => /\ chains'[1].pc = "attempt"
                       /\ chains'[1].stack = chains[1].stack
                       /\ providerToken' = Top(chains[1])]_vars

\* the cycle gives up a candidate for the reasons given
InvalidOnlyFor(reasons) ==
    lastOp'.op = "invalid"
        => /\ lastOp.op \in reasons
           /\ lastOp.op = "rejected" => cyc.acc[Len(cyc.acc)] = "rejected"
           /\ lastOp.op # "rejected"
                => /\ cyc.sel[Len(cyc.sel)] = Initial
                   /\ cyc.acc[Len(cyc.acc)] = "accepted"

\* C16 as stated: a candidate is declared invalid only when a transport
\* connect failed while the probe of the same attempt reported the endpoint
\* up (the candidate's own connect, or that of the token the sentinel was
\* exchanged for).
C16_Original == [][InvalidOnlyFor(ConnectRefused)]_vars

\* C16 (amended): when the transport connect fails and the probe reports the
\* endpoint down the same token is connected again after retryTimeout, and
\* meanwhile no candidate is marked tried or declared invalid; a candidate
\* is declared invalid when its transport connect failed with the probe
\* reporting the endpoint up, and the sentinel also when the transport
\* accepted it and, the probe reporting the endpoint up, its exchange
\* failed: the generated token was rejected or none was generated.
C16_Patience == Patience /\ [][InvalidOnlyFor(ExchangeRefused)]_vars

\* a candidate was retried with the endpoint down, then rejected with the
\* endpoint up, and the cycle has gone on to the next candidate
C16_Witness ==
    /\ lastOp.op = "invalid"
    /\ ~cyc.allUp
    /\ Len(cyc.sel) = 2
    /\ cyc.acc[1] = "rejected"
    /\ TriedCount = 2


\* C17: whenever the transport accepts the sentinel `initial`, the token
\* generation call is made and the attempt goes on with the generated
\* token, sanitised; the sentinel is never reported valid, and neither the
\* token the transport holds at `connected` nor the token in the store is
\* ever `initial`.
C17_SentinelExchange ==
    /\ [][(lastOp'.op = "accepted" /\ Top(chains[1]) = Initial)
            => /\ chains'[1].pc = "generate"
               /\ chains'[1].result = chains[1].result
               /\ isConnecting']_vars
    /\ [][lastOp'.op = "generated"
            => /\ chains[1].pc = "generate"
               /\ providerToken' \in Generated
               /\ chains'[1].stack = Append(chains[1].stack, providerToken')
               /\ chains'[1].pc = "attempt"]_vars
    /\ [][lastOp'.op = "valid"
            => /\ providerToken # Initial
               /\ cyc.okToken = providerToken]_vars
    /\ [](Concluded("connected") => providerToken # Initial)
    /\ [](stored # Initial)

\* a cycle whose last candidate was the sentinel has concluded `connected`:
\* the transport holds the generated token, which is the one stored
C17_Witness ==
    /\ Concluded("connected")
    /\ cyc.sel[Len(cyc.sel)] = Initial
    /\ providerToken \in Generated
    /\ stored = providerToken


\* C18: when `connected` is emitted isConnecting is false and needsToken is
\* false; when `disconnected` is emitted isConnecting is false and
\* needsToken is true, also when the cycle ends through the handler of
\* unexpected failures.
C18_TerminalFlags ==
    [][/\ events' = emit(events, "connected")
          => ~isConnecting' /\ ~needsToken'
       /\ events' = emit(events, "disconnected")
          => ~isConnecting' /\ needsToken']_vars


C20_TriedBookkeeping ==
    /\ [][lastOp'.started
            => \A i \in 1..Len(tokens') : tokens'[i].tried <=> i = 1]_vars
    /\ [][(isConnecting /\ isConnecting')
            => IF lastOp'.op = "updateToken"
               THEN /\ tokens' = <<[value |-> tokens'[1].value, tried |-> FALSE]>>
                                    \o tokens
                    /\ cyc'.sel = cyc.sel
               ELSE /\ Values(tokens') = Values(tokens)
                    /\ \A i \in 1..Len(tokens) :
                          tokens[i].tried => tokens'[i].tried]_vars
    /\ [][Selects
            => \E i \in 1..Len(tokens) :
                  /\ ~tokens[i].tried
                  /\ tokens' = [tokens EXCEPT ![i].tried = TRUE]
                  /\ cyc'.sel = Append(cyc.sel, tokens[i].value)]_vars
    /\ [](isConnecting => TriedCount = Len(cyc.sel))

\* a candidate was prepended while the cycle was in flight; the cycle has
\* gone through the candidates it had and has now selected the new one
C20_Witness ==
    /\ isConnecting
    /\ cyc.updated
    /\ lastOp.op = "invalid"
    /\ Len(cyc.sel) = 3
    /\ cyc.sel[3] = tokens[1].value
    /\ TriedCount = 3

====
